---- MODULE Spec2Model ----
(***************************************************************************)
(* Model of src/main.py: the OWNERS analyzer (discovery, per-file parse,   *)
(* aggregation) and the dry-run / Endor Labs delivery wiring of main().    *)
(*                                                                         *)
(* Text is modelled as a sequence of atoms.  The multi-character literals  *)
(* the code searches for ("jira-project", "jira-component", "OWNERS") are  *)
(* single atoms: none of them overlaps itself or the other, so matching    *)
(* them atom-wise is the same as matching them character-wise.  Every      *)
(* other atom is one character.                                            *)
(***************************************************************************)
EXTENDS Integers, Sequences, FiniteSets, TLC

(***************************************************************************)
(* Bounds                                                                  *)
(***************************************************************************)
MaxFiles == 2
MaxLines == 3
MaxValueLen == 3
MaxGap == 2

(***************************************************************************)
(* Characters                                                              *)
(***************************************************************************)
JiraProject == "jira-project"
JiraComponent == "jira-component"
Keywords == {JiraProject, JiraComponent}
Space == " "
DQuote == "\""
SQuote == "'"
Hash == "#"
Letter == "x"
Newline == "\n"

IsSpace(c) == c = Space

\* a bug that would know the double quote only
IsQuoteDoubleOnly(c) == c = DQuote

IsQuote(c) == c \in {DQuote, SQuote}

(***************************************************************************)
(* str helpers                                                             *)
(***************************************************************************)
RECURSIVE LStrip(_)
LStrip(s) == IF s # <<>> /\ IsSpace(Head(s)) THEN LStrip(Tail(s)) ELSE s

RECURSIVE RStrip(_)
RStrip(s) ==
    IF s # <<>> /\ IsSpace(s[Len(s)]) THEN RStrip(SubSeq(s, 1, Len(s) - 1)) ELSE s

\* str.strip()
Strip(s) == RStrip(LStrip(s))

\* str.startswith(c) for a one-atom prefix
StartsWith(s, c) == s # <<>> /\ Head(s) = c

\* content.split("\n"): always at least one piece, empty pieces kept
RECURSIVE SplitLines(_)
SplitLines(s) ==
    IF \A i \in 1..Len(s) : s[i] # Newline
    THEN <<s>>
    ELSE LET k == CHOOSE i \in 1..Len(s) :
                     s[i] = Newline /\ \A j \in 1..(i - 1) : s[j] # Newline
         IN  <<SubSeq(s, 1, k - 1)>> \o SplitLines(SubSeq(s, k + 1, Len(s)))

(***************************************************************************)
(* re.search(r'<keyword>\s+[\'"]?([^\'"]+)[\'"]?', line)                   *)
(***************************************************************************)
\* length of the longest run of whitespace starting at position p
RECURSIVE SpaceRun(_, _)
SpaceRun(line, p) ==
    IF p <= Len(line) /\ IsSpace(line[p]) THEN 1 + SpaceRun(line, p + 1) ELSE 0

\* length of the longest run of [^'"] starting at position p
RECURSIVE NonQuoteRun(_, _)
NonQuoteRun(line, p) ==
    IF p <= Len(line) /\ ~IsQuote(line[p]) THEN 1 + NonQuoteRun(line, p + 1) ELSE 0

\* group(1) when \s+ has consumed s characters after the keyword at i:
\* the optional quote is tried first, then skipped; <<>> when neither fits
GroupAfter(line, i, s) ==
    LET pos == i + 1 + s
    IN  IF pos <= Len(line) /\ IsQuote(line[pos]) /\ NonQuoteRun(line, pos + 1) > 0
        THEN SubSeq(line, pos + 1, pos + NonQuoteRun(line, pos + 1))
        ELSE IF NonQuoteRun(line, pos) > 0
             THEN SubSeq(line, pos, pos + NonQuoteRun(line, pos) - 1)
             ELSE <<>>

\* the match anchored at position i: \s+ is greedy and backtracks
MatchAt(line, keyword, i) ==
    IF line[i] # keyword \/ SpaceRun(line, i + 1) = 0
    THEN <<>>
    ELSE LET ws == SpaceRun(line, i + 1)
             ok == {s \in 1..ws : GroupAfter(line, i, s) # <<>>}
         IN  IF ok = {} THEN <<>>
             ELSE GroupAfter(line, i, CHOOSE s \in ok : \A t \in ok : t <= s)

\* re.search: the leftmost position with a match; <<>> stands for None
\* (group(1) is never empty)
ReSearch(line, keyword) ==
    LET hits == {i \in 1..Len(line) : MatchAt(line, keyword, i) # <<>>}
    IN  IF hits = {} THEN <<>>
        ELSE MatchAt(line, keyword, CHOOSE i \in hits : \A j \in hits : i <= j)

(***************************************************************************)
(* The per-file parse loop of analyze_owners_files (lines 102-123).        *)
(* A parse result is a record [labels, owners].                            *)
(***************************************************************************)
NoPairs == [labels |-> <<>>, owners |-> <<>>]

\* a bug that would put each new pair in front of the earlier ones
ParseLinePrepend(acc, raw) ==
    LET line == Strip(raw)
        keyword == IF StartsWith(line, JiraProject) THEN JiraProject ELSE JiraComponent
    IN  IF line # <<>> /\ Head(line) \in Keywords /\ ReSearch(line, keyword) # <<>>
        THEN [labels |-> <<keyword>> \o acc.labels,
              owners |-> <<ReSearch(line, keyword)>> \o acc.owners]
        ELSE acc

\* one iteration of the loop body over a raw line
ParseLine(acc, raw) ==
    LET line == Strip(raw)
    IN  IF line # <<>> /\ ~StartsWith(line, Hash)
        THEN IF StartsWith(line, JiraProject)
             THEN LET m == ReSearch(line, JiraProject)
                  IN  IF m # <<>>
                      THEN [labels |-> Append(acc.labels, JiraProject),
                            owners |-> Append(acc.owners, m)]
                      ELSE acc
             ELSE IF StartsWith(line, JiraComponent)
                  THEN LET m == ReSearch(line, JiraComponent)
                       IN  IF m # <<>>
                           THEN [labels |-> Append(acc.labels, JiraComponent),
                                 owners |-> Append(acc.owners, m)]
                           ELSE acc
                  ELSE acc
        ELSE acc

RECURSIVE ParseLines(_, _)
ParseLines(acc, lines) ==
    IF lines = <<>> THEN acc
    ELSE ParseLines(ParseLine(acc, Head(lines)), Tail(lines))

ParseContent(content) == ParseLines(NoPairs, SplitLines(content))

(***************************************************************************)
(* Paths.  A path is a sequence over "/", "OWNERS" and the letter "a".     *)
(***************************************************************************)
Slash == "/"
Owners == "OWNERS"
PathLetter == "a"

\* path.replace("/OWNERS", ""): every non-overlapping occurrence, left to right
RECURSIVE CleanPath(_)
CleanPath(path) ==
    IF path = <<>> THEN <<>>
    ELSE IF Len(path) >= 2 /\ path[1] = Slash /\ path[2] = Owners
         THEN CleanPath(SubSeq(path, 3, Len(path)))
         ELSE <<Head(path)>> \o CleanPath(Tail(path))

RECURSIVE JoinDir(_)
JoinDir(segs) ==
    IF segs = <<>> THEN <<>> ELSE Head(segs) \o <<Slash>> \o JoinDir(Tail(segs))

\* the path of the OWNERS file in the directory with the given segments;
\* the repository root (no segments) gives "OWNERS"
OwnersPathOf(segs) == JoinDir(segs) \o <<Owners>>

\* directories of the modelled repositories: the root, a, aa, OWNERSa,
\* a/OWNERS, a/OWNERSa and a/OWNERS/OWNERSa
DirA == <<PathLetter>>
DirAA == <<PathLetter, PathLetter>>
DirOwners == <<Owners>>
DirOwnersA == <<Owners, PathLetter>>

OwnersDirs ==
    { <<>>, <<DirA>>, <<DirAA>>, <<DirOwnersA>>, <<DirA, DirOwners>>,
      <<DirA, DirOwnersA>>, <<DirA, DirOwners, DirOwnersA>> }

\* what `git ls-files '**/OWNERS'` can list: tracked files named OWNERS
\* (the root one is listed when pathspecs are globs, GIT_GLOB_PATHSPECS)
OwnersPaths == {OwnersPathOf(d) : d \in OwnersDirs}

RECURSIVE SeqsUpTo(_, _)
SeqsUpTo(S, n) ==
    IF n = 0 THEN {<<>>}
    ELSE LET shorter == SeqsUpTo(S, n - 1)
         IN  shorter \cup {Append(s, x) : s \in {t \in shorter : Len(t) = n - 1}, x \in S}

\* a tracked file is not also a directory of another tracked file
IsDirPrefix(p, q) ==
    Len(q) > Len(p) + 1 /\ SubSeq(q, 1, Len(p)) = p /\ q[Len(p) + 1] = Slash

ConsistentTree(S) == \A p \in S : \A q \in S : ~IsDirPrefix(p, q)

RECURSIVE SubsetsUpTo(_, _)
SubsetsUpTo(S, n) ==
    IF n = 0 THEN {{}}
    ELSE LET smaller == SubsetsUpTo(S, n - 1)
         IN  smaller \cup {T \cup {x} : T \in smaller, x \in S}

\* git lists index entries in byte order of their paths
ByteRank(c) == CASE c = Slash -> 1 [] c = Owners -> 2 [] OTHER -> 3

RECURSIVE PathLess(_, _)
PathLess(p, q) ==
    IF q = <<>> THEN FALSE
    ELSE IF p = <<>> THEN TRUE
    ELSE IF Head(p) = Head(q) THEN PathLess(Tail(p), Tail(q))
    ELSE ByteRank(Head(p)) < ByteRank(Head(q))

RECURSIVE SortPaths(_)
SortPaths(S) ==
    IF S = {} THEN <<>>
    ELSE LET least == CHOOSE p \in S : \A q \in S \ {p} : PathLess(p, q)
         IN  <<least>> \o SortPaths(S \ {least})

(***************************************************************************)
(* The working tree: which OWNERS files are tracked, and what open()/read() *)
(* gives for each (get_file_content, lines 76-83).                         *)
(***************************************************************************)
Readable(text) == [readable |-> TRUE, text |-> text]
Unreadable == [readable |-> FALSE, text |-> <<>>]

RECURSIVE JoinLines(_)
JoinLines(lines) ==
    IF lines = <<>> THEN <<>>
    ELSE IF Len(lines) = 1 THEN Head(lines)
    ELSE Head(lines) \o <<Newline>> \o JoinLines(Tail(lines))

ProjectLine == <<JiraProject, Space, DQuote, Letter, DQuote>>
ComponentLine == <<JiraComponent, Space, SQuote, Letter, Letter, SQuote>>
BareProjectLine == <<JiraProject, Space, Letter>>
CommentLine == <<Hash, Space, Letter>>

\* file texts of the aggregation runs
TreeTexts ==
    { ProjectLine,
      JoinLines(<<ComponentLine, CommentLine, <<>>>>),
      JoinLines(<<CommentLine, <<>>, CommentLine>>),
      JoinLines(<<BareProjectLine, ComponentLine, BareProjectLine>>) }

TreeFiles == {Readable(t) : t \in TreeTexts} \cup {Unreadable}

Trees(paths, files, n) ==
    UNION {[S -> files] : S \in {T \in SubsetsUpTo(paths, n) : ConsistentTree(T)}}

(***************************************************************************)
(* State of one run of main()                                              *)
(***************************************************************************)
VARIABLES
    pc,             \* position in main()
    no_dry_run,     \* args.no_dry_run
    endor_token,    \* whether ENDOR_TOKEN is set
    tree,           \* the working tree: tracked OWNERS path -> file
    owners_files,   \* the list get_owners_files returned
    discovery_failed,\* the git remote lookup or git ls-files raised
    idx,            \* number of loop iterations of analyze_owners_files done
    clean_path,     \* clean_path of the last iteration
    reads,          \* paths passed to get_file_content, in order
    results,        \* the map under construction: clean_path -> [labels, owners]
    http_gets,      \* requests.get calls issued
    http_posts,     \* requests.post calls issued
    response,       \* status_code of the POST response
    done_printed,   \* "Done" was printed
    exit_status     \* process exit status, meaningful when pc = "exit"

vars == <<pc, no_dry_run, endor_token, tree, owners_files, discovery_failed, idx,
          clean_path, reads, results, http_gets, http_posts, response,
          done_printed, exit_status>>

EmptyMap == [k \in {} |-> NoPairs]

InitRun ==
    /\ pc = "start"
    /\ no_dry_run \in BOOLEAN
    /\ endor_token \in BOOLEAN
    /\ owners_files = <<>>
    /\ discovery_failed = FALSE
    /\ idx = 0
    /\ clean_path = <<>>
    /\ reads = <<>>
    /\ results = EmptyMap
    /\ http_gets = 0
    /\ http_posts = 0
    /\ response = 0
    /\ done_printed = FALSE
    /\ exit_status = 0

Init ==
    /\ tree \in Trees(OwnersPaths, TreeFiles, MaxFiles)
    /\ InitRun

\* sys.exit(code), or an exception that leaves main() (status 1)
Exit(code) ==
    /\ pc' = "exit"
    /\ exit_status' = code

(***************************************************************************)
(* main, lines 222-226: the token check                                    *)
(***************************************************************************)
CheckToken ==
    /\ pc = "start"
    /\ IF endor_token
       THEN pc' = "git_info" /\ UNCHANGED exit_status
       ELSE Exit(1)
    /\ UNCHANGED <<no_dry_run, endor_token, tree, owners_files, discovery_failed,
                   idx, clean_path, reads, results, http_gets, http_posts,
                   response, done_printed>>

(***************************************************************************)
(* OwnersAnalyzer.__init__ / _get_git_info, lines 13-49.  The lookup       *)
(* succeeds, raises CalledProcessError (sys.exit(1)), or raises something  *)
(* else, which main() re-raises.                                           *)
(***************************************************************************)
GitOutcomes == {"ok", "CalledProcessError", "Exception"}

GetGitInfo(outcome) ==
    /\ pc = "git_info"
    /\ IF outcome = "ok"
       THEN pc' = "discover" /\ UNCHANGED <<exit_status, discovery_failed>>
       ELSE discovery_failed' = TRUE /\ Exit(1)
    /\ UNCHANGED <<no_dry_run, endor_token, tree, owners_files,
                   idx, clean_path, reads, results, http_gets, http_posts,
                   response, done_printed>>

(***************************************************************************)
(* get_owners_files, lines 51-74                                           *)
(***************************************************************************)
GetOwnersFiles(outcome) ==
    /\ pc = "discover"
    /\ \/ /\ outcome = "ok"
          /\ owners_files' = SortPaths(DOMAIN tree)
          /\ pc' = "loop"
          /\ UNCHANGED <<discovery_failed, exit_status>>
       \/ /\ outcome = "CalledProcessError"
          /\ owners_files' = <<>>
          /\ discovery_failed' = TRUE
          /\ pc' = "loop"
          /\ UNCHANGED exit_status
       \/ /\ outcome = "Exception"
          /\ discovery_failed' = TRUE
          /\ Exit(1)
          /\ UNCHANGED owners_files
    /\ UNCHANGED <<no_dry_run, endor_token, tree, idx, clean_path, reads,
                   results, http_gets, http_posts, response, done_printed>>

(***************************************************************************)
(* analyze_owners_files, lines 91-134: one iteration of the loop           *)
(***************************************************************************)
\* `if content:` -- None and the empty string are both skipped
HasContent(file) == file.readable /\ file.text # <<>>

\* `if labels and owners:`
HasOwners(parsed) == parsed.labels # <<>> /\ parsed.owners # <<>>

\* a bug that would keep the entry a key already has
StoreFirstWins(map, key, parsed) ==
    IF key \in DOMAIN map THEN map
    ELSE [k \in DOMAIN map \cup {key} |-> IF k = key THEN parsed ELSE map[k]]

\* results[clean_path] = {"labels": labels, "owners": owners}
Store(map, key, parsed) ==
    [k \in DOMAIN map \cup {key} |-> IF k = key THEN parsed ELSE map[k]]

ProcessFile ==
    /\ pc = "loop"
    /\ idx < Len(owners_files)
    /\ LET path == owners_files[idx + 1]
           file == tree[path]
           parsed == ParseContent(file.text)
       IN  /\ clean_path' = CleanPath(path)
           /\ reads' = Append(reads, path)
           /\ results' = IF HasContent(file) /\ HasOwners(parsed)
                         THEN Store(results, CleanPath(path), parsed)
                         ELSE results
    /\ idx' = idx + 1
    /\ UNCHANGED <<pc, no_dry_run, endor_token, tree, owners_files,
                   discovery_failed, http_gets, http_posts, response,
                   done_printed, exit_status>>

(***************************************************************************)
(* main, lines 238-254                                                     *)
(***************************************************************************)
\* a bug that would sync whatever the flag says
IsDryRunNever(flag) == FALSE

\* `if not args.no_dry_run:` takes the dry-run branch
IsDryRun(flag) == ~flag

AnalysisReturned == pc = "loop" /\ idx = Len(owners_files)

\* "DRY RUN MODE - Skipping syncing with Endor Labs"; main() returns
SkipSync ==
    /\ AnalysisReturned
    /\ IsDryRun(no_dry_run)
    /\ Exit(0)
    /\ UNCHANGED <<no_dry_run, endor_token, tree, owners_files, discovery_failed,
                   idx, clean_path, reads, results, http_gets, http_posts,
                   response, done_printed>>

StartSync ==
    /\ AnalysisReturned
    /\ ~IsDryRun(no_dry_run)
    /\ pc' = "get_uuid"
    /\ UNCHANGED <<no_dry_run, endor_token, tree, owners_files, discovery_failed,
                   idx, clean_path, reads, results, http_gets, http_posts,
                   response, done_printed, exit_status>>

(***************************************************************************)
(* sync_to_endor, lines 149-161: the project-UUID GET.  It answers 200     *)
(* with a usable body, answers another status, or raises (network error,   *)
(* or a body without list.objects[0].uuid); the last two sys.exit(1).      *)
(***************************************************************************)
UuidOutcomes == {"ok", "bad_status", "Exception"}

GetProjectUuid(outcome) ==
    /\ pc = "get_uuid"
    /\ http_gets' = http_gets + 1
    /\ IF outcome = "ok"
       THEN pc' = "post" /\ UNCHANGED exit_status
       ELSE Exit(1)
    /\ UNCHANGED <<no_dry_run, endor_token, tree, owners_files, discovery_failed,
                   idx, clean_path, reads, results, http_posts, response,
                   done_printed>>

(***************************************************************************)
(* sync_to_endor, lines 185-187: the codeowners POST                       *)
(***************************************************************************)
PostStatuses == {200, 201, 302, 404, 500}

PostCodeowners(status) ==
    /\ pc = "post"
    /\ http_posts' = http_posts + 1
    /\ response' = status
    /\ pc' = "check"
    /\ UNCHANGED <<no_dry_run, endor_token, tree, owners_files, discovery_failed,
                   idx, clean_path, reads, results, http_gets, done_printed,
                   exit_status>>

\* requests.post raises; main() prints and re-raises (lines 256-258)
PostRaises ==
    /\ pc = "post"
    /\ http_posts' = http_posts + 1
    /\ Exit(1)
    /\ UNCHANGED <<no_dry_run, endor_token, tree, owners_files, discovery_failed,
                   idx, clean_path, reads, results, http_gets, response,
                   done_printed>>

\* a bug that would treat only server errors as failures
ResponseFailedServerOnly(status) == status >= 500

\* `if response.status_code != 200:`
ResponseFailed(status) == status # 200

CheckResponse ==
    /\ pc = "check"
    /\ IF ResponseFailed(response)
       THEN Exit(1) /\ UNCHANGED done_printed
       ELSE done_printed' = TRUE /\ Exit(0)
    /\ UNCHANGED <<no_dry_run, endor_token, tree, owners_files, discovery_failed,
                   idx, clean_path, reads, results, http_gets, http_posts,
                   response>>

Next ==
    \/ CheckToken
    \/ \E o \in GitOutcomes : GetGitInfo(o)
    \/ \E o \in GitOutcomes : GetOwnersFiles(o)
    \/ ProcessFile
    \/ SkipSync
    \/ StartSync
    \/ \E o \in UuidOutcomes : GetProjectUuid(o)
    \/ \E s \in PostStatuses : PostCodeowners(s)
    \/ PostRaises
    \/ CheckResponse

Spec == Init /\ [][Next]_vars

(***************************************************************************)
(* Runs over one OWNERS file, a/OWNERS, with the text drawn from           *)
(* declaration lines of every quoting and from multi-line files.           *)
(***************************************************************************)
ValueAlphabet == {Letter, Space, Hash}
Quotes == {<<>>, <<DQuote>>, <<SQuote>>}

Spaces(n) == [i \in 1..n |-> Space]

\* keyword, n blanks, optional quote, value, optional quote
DeclarationLine(keyword, n, open, value, close) ==
    <<keyword>> \o Spaces(n) \o open \o value \o close

DeclarationLines ==
    { DeclarationLine(k, n, q1, v, q2) :
        k \in Keywords, n \in 0..MaxGap, q1 \in Quotes, q2 \in Quotes,
        v \in SeqsUpTo(ValueAlphabet, MaxValueLen) }

IndentedComment == <<Space, Hash, JiraProject, Space, Letter>>
OtherLine == <<Letter>>

SampleLines ==
    { ProjectLine, ComponentLine, BareProjectLine, CommentLine, IndentedComment,
      OtherLine, <<>> }

ParseTexts ==
    DeclarationLines \cup {JoinLines(ls) : ls \in SeqsUpTo(SampleLines, MaxLines) \ {<<>>}}

OneFilePath == OwnersPathOf(<<DirA>>)

InitParse ==
    /\ tree \in {[p \in {OneFilePath} |-> Readable(t)] : t \in ParseTexts}
    /\ InitRun

SpecParse == InitParse /\ [][Next]_vars

TypeOK ==
    /\ pc \in {"start", "git_info", "discover", "loop", "get_uuid", "post", "check", "exit"}
    /\ idx \in 0..Len(owners_files)
    /\ Len(reads) = idx
    /\ exit_status \in {0, 1}

(***************************************************************************)
(* Vocabulary of the properties                                            *)
(***************************************************************************)
\* analyze_owners_files has returned its map
AnalysisDone == pc \in {"get_uuid", "post", "check", "exit"} /\ idx > 0

EndsWithSlashOwners(path) ==
    Len(path) >= 2 /\ path[Len(path) - 1] = Slash /\ path[Len(path)] = Owners

\* the directory an OWNERS path lies in: the path without its trailing
\* "/OWNERS" (7 characters, 2 atoms); the root for "OWNERS" itself
DirOf(path) ==
    IF EndsWithSlashOwners(path) THEN SubSeq(path, 1, Len(path) - 2) ELSE <<>>

RootOwners == <<Owners>>

TextOf(i) == tree[owners_files[i]].text

\* the processed files that wrote an entry under key k
Contributors(k) ==
    {i \in 1..idx : /\ CleanPath(owners_files[i]) = k
                    /\ HasContent(tree[owners_files[i]])
                    /\ HasOwners(ParseContent(TextOf(i)))}

Last(S) == CHOOSE i \in S : \A j \in S : j <= i

TimesRead(path) == Cardinality({i \in 1..Len(reads) : reads[i] = path})

IsCommentOrBlank(line) == LStrip(line) = <<>> \/ Head(LStrip(line)) = Hash

OnlyCommentsAndBlanks(text) ==
    \A i \in 1..Len(SplitLines(text)) : IsCommentOrBlank(SplitLines(text)[i])

Is2xx(status) == status >= 200 /\ status < 300

\* values without quote characters and without leading/trailing whitespace
WellFormedValues ==
    {v \in SeqsUpTo(ValueAlphabet, MaxValueLen) :
        v # <<>> /\ ~IsSpace(Head(v)) /\ ~IsSpace(v[Len(v)])}

\* the lines K "X", K 'X' and K X of every keyword K, well-formed value X
\* and run of blanks between them
QuoteForms ==
    { [line |-> DeclarationLine(k, n, q, v, q), keyword |-> k, value |-> v] :
        k \in Keywords, n \in 1..MaxGap, q \in Quotes, v \in WellFormedValues }

QuoteFormLines == {f.line : f \in QuoteForms}

\* the (label, value) pair a declaration line stands for
DeclaredPair(raw) ==
    LET line == Strip(raw)
    IN  IF StartsWith(line, JiraProject)
        THEN <<JiraProject, ReSearch(line, JiraProject)>>
        ELSE <<JiraComponent, ReSearch(line, JiraComponent)>>

IsMatchingDeclaration(raw) ==
    /\ Strip(raw) # <<>>
    /\ Head(Strip(raw)) \in Keywords
    /\ DeclaredPair(raw)[2] # <<>>

MatchingDeclarations(text) == SelectSeq(SplitLines(text), IsMatchingDeclaration)

(***************************************************************************)
(* C1.  The directory key of a discovered path ending in "/OWNERS" is the  *)
(* path without its last 7 characters: only the trailing "/OWNERS" is      *)
(* removed, never an earlier occurrence.                                   *)
(***************************************************************************)
C1_OnlyTrailingSuffixRemoved ==
    (idx > 0 /\ EndsWithSlashOwners(owners_files[idx]))
        => clean_path = SubSeq(owners_files[idx], 1, Len(owners_files[idx]) - 2)

(***************************************************************************)
(* C2.  A root-level OWNERS file whose content yields a pair gives the     *)
(* final map the key "" and no key "OWNERS".                               *)
(***************************************************************************)
C2_RootKeyIsEmpty ==
    (/\ AnalysisDone
     /\ \E i \in 1..idx : /\ owners_files[i] = RootOwners
                          /\ HasContent(tree[RootOwners])
                          /\ HasOwners(ParseContent(tree[RootOwners].text)))
        => (<<>> \in DOMAIN results /\ RootOwners \notin DOMAIN results)

(***************************************************************************)
(* C3.  When enumerating the OWNERS files fails (the git remote lookup or  *)
(* git ls-files raises), the run has aborted with a failure status: no     *)
(* file is read, nothing is delivered, and it does not go on with an empty *)
(* file list.                                                              *)
(***************************************************************************)
C3_DiscoveryFailureFatal ==
    discovery_failed =>
        /\ pc = "exit"
        /\ exit_status = 1
        /\ reads = <<>>
        /\ http_gets = 0
        /\ http_posts = 0

(***************************************************************************)
(* C4.  A failed content fetch is isolated: no file is fetched twice, the  *)
(* final map has no entry for the directory of a path whose fetch failed,  *)
(* and every other path's entry is the one its own content gives.          *)
(***************************************************************************)
C4_FetchFailureIsolated ==
    /\ \A p \in DOMAIN tree : TimesRead(p) <= 1
    /\ AnalysisDone =>
         /\ \A i \in 1..idx :
                ~tree[owners_files[i]].readable
                    => DirOf(owners_files[i]) \notin DOMAIN results
         /\ \A k \in DOMAIN results :
                /\ Contributors(k) # {}
                /\ results[k] = ParseContent(TextOf(Last(Contributors(k))))

(***************************************************************************)
(* C5.  Without --no-dry-run no HTTP request is ever issued (neither the   *)
(* project-UUID GET nor the codeowners POST), and a dry run ends normally  *)
(* only after the whole pipeline ran: every discovered file was processed. *)
(***************************************************************************)
C5_DryRunNeverTouchesNetwork ==
    ~no_dry_run =>
        /\ http_gets = 0
        /\ http_posts = 0
        /\ pc \notin {"get_uuid", "post", "check"}
        /\ ~done_printed
        /\ (pc = "exit" /\ exit_status = 0) =>
              /\ idx = Len(owners_files)
              /\ reads = owners_files
              /\ ~discovery_failed => reads = SortPaths(DOMAIN tree)

C5_Witness ==
    /\ ~no_dry_run
    /\ pc = "exit"
    /\ exit_status = 0
    /\ Len(reads) = 2
    /\ results # EmptyMap
    /\ http_gets = 0
    /\ http_posts = 0

(***************************************************************************)
(* C6.  The codeowners POST is issued at most once per run, and once it    *)
(* has raised or answered a non-2xx status "Done" is never reported and    *)
(* the only way the process ends is with status 1.                         *)
(***************************************************************************)
C6_DeliveryFailureFatal ==
    /\ http_posts <= 1
    /\ (http_posts = 1 /\ ~Is2xx(response)) =>
          /\ pc \in {"check", "exit"}
          /\ ~done_printed
          /\ pc = "exit" => exit_status = 1

C6_Witness ==
    /\ no_dry_run
    /\ pc = "exit"
    /\ http_posts = 1
    /\ response = 302
    /\ exit_status = 1
    /\ ~done_printed

(***************************************************************************)
(* C7.  For a keyword K, a non-empty value X without quote characters and  *)
(* without leading or trailing whitespace, the lines K "X", K 'X' and K X  *)
(* (K, whitespace, value) each contribute exactly the one pair (K, X).     *)
(***************************************************************************)
C7_QuoteFormsEquivalent ==
    (idx = 1 /\ DOMAIN tree = {OneFilePath}
             /\ tree[OneFilePath].text \in QuoteFormLines) =>
        \A f \in QuoteForms :
            tree[OneFilePath].text = f.line
                => results = (DirA :> [labels |-> <<f.keyword>>, owners |-> <<f.value>>])

C7_Witness ==
    /\ idx = 1
    /\ DOMAIN tree = {OneFilePath}
    /\ tree[OneFilePath].text
         = DeclarationLine(JiraComponent, 2, <<SQuote>>, <<Hash, Space, Letter>>, <<SQuote>>)
    /\ results = (DirA :> [labels |-> <<JiraComponent>>,
                           owners |-> <<<<Hash, Space, Letter>>>>])

(***************************************************************************)
(* C8.  Every entry of the map has non-empty labels and owners, and the    *)
(* directory of a file made only of comment lines and blank lines is not a *)
(* key of the final map.                                                   *)
(***************************************************************************)
C8_NoEntryWithoutDeclarations ==
    /\ \A k \in DOMAIN results :
           results[k].labels # <<>> /\ results[k].owners # <<>>
    /\ AnalysisDone =>
         \A i \in 1..idx :
             (HasContent(tree[owners_files[i]]) /\ OnlyCommentsAndBlanks(TextOf(i)))
                 => DirOf(owners_files[i]) \notin DOMAIN results

(***************************************************************************)
(* C9.  In every map entry labels and owners have the same length as the   *)
(* matching declaration lines of the file that wrote it, and the i-th      *)
(* (label, owner) is the pair of the i-th such line: file order, nothing   *)
(* sorted, no duplicate dropped.                                           *)
(***************************************************************************)
C9_IndexAlignedInFileOrder ==
    \A k \in DOMAIN results :
        LET decls == MatchingDeclarations(TextOf(Last(Contributors(k))))
        IN  /\ Len(results[k].labels) = Len(decls)
            /\ Len(results[k].owners) = Len(decls)
            /\ \A i \in 1..Len(decls) :
                   <<results[k].labels[i], results[k].owners[i]>> = DeclaredPair(decls[i])

C9_Witness ==
    /\ idx = 1
    /\ DOMAIN tree = {OneFilePath}
    /\ tree[OneFilePath].text
         = JoinLines(<<BareProjectLine, ComponentLine, BareProjectLine>>)
    /\ results = (DirA :> [labels |-> <<JiraProject, JiraComponent, JiraProject>>,
                           owners |-> <<<<Letter>>, <<Letter, Letter>>, <<Letter>>>>])

(***************************************************************************)
(* C10.  When several processed paths normalize to the same key and yield  *)
(* pairs, the map's entry for that key is exactly the labels and owners of *)
(* the one latest in discovery order.                                      *)
(***************************************************************************)
C10_LastWriteWins ==
    \A j \in 1..idx :
        LET k == CleanPath(owners_files[j])
        IN  Cardinality(Contributors(k)) >= 2
                => /\ k \in DOMAIN results
                   /\ results[k] = ParseContent(TextOf(Last(Contributors(k))))

C10_Witness ==
    /\ AnalysisDone
    /\ \E k \in DOMAIN results :
          /\ Cardinality(Contributors(k)) >= 2
          /\ \E i \in Contributors(k) :
                 ParseContent(TextOf(i)) # ParseContent(TextOf(Last(Contributors(k))))
          /\ results[k] = ParseContent(TextOf(Last(Contributors(k))))

====
